---- MODULE Spec2Model ----
(***************************************************************************)
(* MyPW (src/mypw.py): a single-file encrypted password vault.            *)
(*                                                                         *)
(* Bytes are symbolic.  A byte is a record [enc, t, v, x]:                 *)
(*   t   what the byte is: "rnd" (output of os.urandom), "ct" (the AES    *)
(*       ciphertext of a Fernet token), "mac" (its HMAC), "junk" (a byte  *)
(*       outside the base64 alphabet, e.g. a newline);                     *)
(*   v   the term the byte stands for;                                     *)
(*   x   1 when the byte's value was changed after it was produced;        *)
(*   enc "raw" for a byte, "b64" for its base64 text form.                 *)
(* PBKDF2, AES and HMAC are ideal: collision free, and only the same key   *)
(* opens what a key closed.  os.urandom never repeats: its n-th draw is    *)
(* the term <<n, i>>, n being the number of draws made before it.          *)
(*                                                                         *)
(* One process runs at a time (pw init, pw reset, pw add|get|list|delete,  *)
(* or the interactive menu); pc = "shell" when none does.  A write of the  *)
(* vault file takes two steps, open(VAULT_PATH, "wb") and f.write, and the *)
(* process can be interrupted at any step.  The call of reset_vault in     *)
(* main (line 326) is indented as its elif; it is modelled as the body of  *)
(* that branch.                                                            *)
(***************************************************************************)
EXTENDS Integers, Sequences, FiniteSets, TLC

\* ------------------------------------------------------------------ bounds
\* os.urandom is drawn at most MaxRand times in a behaviour
MaxRand == 8
\* service names have at most MaxNameLen characters
MaxNameLen == 1

\* --------------------------------------------------------------- constants
SALT_SIZE == 16

Chars == {"a", "A", "b"}
Passwords == {"p", "q"}
Usernames == {"u"}
Secrets == {"x", "y"}
NoPassword == "<None>"

\* str.lower(), character by character
LowerChar(c) == IF c = "A" THEN "a" ELSE c

lower_identity(s) == s

lower(s) == [i \in DOMAIN s |-> LowerChar(s[i])]

Names == UNION {[1..n -> Chars] : n \in 1..MaxNameLen}

\* ------------------------------------------------------------ python dicts
EmptyDict == [k \in {} |-> [username |-> "", password |-> ""]]

None == [isNone |-> TRUE, accounts |-> EmptyDict]

Vault(accounts) == [isNone |-> FALSE, accounts |-> accounts]

empty_vault == Vault(EmptyDict)

\* d[key] = value
DictSet(d, key, value) ==
  [k \in (DOMAIN d) \cup {key} |-> IF k = key THEN value ELSE d[k]]

\* del d[key]
DictDel(d, key) == [k \in (DOMAIN d) \ {key} |-> d[k]]

\* ------------------------------------------------------------- cryptography
Byte(t, v) == [enc |-> "raw", t |-> t, v |-> v, x |-> 0]

os_urandom(n, size) == [i \in 1..size |-> Byte("rnd", <<n, i>>)]

\* the value of a byte, as a number; bytes that os.urandom did not draw count as -1
ByteValue(b) ==
  IF b.t = "rnd" THEN (b.v[1] * (SALT_SIZE + 1) + b.v[2]) * 2 + b.x ELSE -1

\* PBKDF2 over the password and the values of the salt's bytes
derive_key(password, salt) == <<password, [i \in DOMAIN salt |-> ByteValue(salt[i])]>>

json_dumps(data) ==
  <<"accounts",
    {<<k, data.accounts[k].username, data.accounts[k].password>> :
       k \in DOMAIN data.accounts}>>

json_loads(s) ==
  IF s[1] = "accounts"
  THEN Vault([k \in {e[1] : e \in s[2]} |->
                LET e == CHOOSE e \in s[2] : e[1] = k
                IN  [username |-> e[2], password |-> e[3]]])
  ELSE None

HMAC(key, iv, ct) == Byte("mac", <<key, iv, ct>>)

\* Fernet(key).encrypt(plaintext), n the number of os.urandom draws so far
Fernet_encrypt(key, plaintext, n) ==
  LET iv == os_urandom(n, 1)[1]
      ct == Byte("ct", <<key, iv, plaintext>>)
  IN  <<iv, ct, HMAC(key, iv, ct)>>

\* Fernet(key).decrypt(token) does not raise InvalidToken
Fernet_valid(key, token) ==
  /\ Len(token) = 3
  /\ token[3].t = "mac"
  /\ token[3] = HMAC(key, token[1], token[2])
  /\ token[2].t = "ct"
  /\ token[2].x = 0
  /\ token[2].v[1] = key

Fernet_decrypt(key, token) == token[2].v[3]

b64encode(bytes) == [i \in DOMAIN bytes |-> [bytes[i] EXCEPT !.enc = "b64"]]

InAlphabet(c) == c.t # "junk"

\* base64.b64decode(s), validate=False: bytes outside the alphabet are dropped
b64decode(s) ==
  LET kept == SelectSeq(s, InAlphabet)
  IN  [i \in DOMAIN kept |-> [kept[i] EXCEPT !.enc = "raw"]]

encrypt_data_fixed_salt(data, password, n) ==
  LET salt == os_urandom(0, SALT_SIZE)
      key == derive_key(password, salt)
      encrypted_data == Fernet_encrypt(key, json_dumps(data), 1)
  IN  b64encode(salt \o encrypted_data)

encrypt_data(data, password, n) ==
  LET salt == os_urandom(n, SALT_SIZE)
      key == derive_key(password, salt)
      encrypted_data == Fernet_encrypt(key, json_dumps(data), n + 1)
  IN  b64encode(salt \o encrypted_data)

decrypt_data_short_salt(encrypted_blob, password) ==
  LET decoded_blob == b64decode(encrypted_blob)
      size == SALT_SIZE - 1
      cut == IF Len(decoded_blob) < size THEN Len(decoded_blob) ELSE size
      salt == SubSeq(decoded_blob, 1, cut)
      encrypted_data == SubSeq(decoded_blob, cut + 1, Len(decoded_blob))
      key == derive_key(password, salt)
  IN  IF Fernet_valid(key, encrypted_data)
      THEN json_loads(Fernet_decrypt(key, encrypted_data))
      ELSE None

decrypt_data(encrypted_blob, password) ==
  LET decoded_blob == b64decode(encrypted_blob)
      cut == IF Len(decoded_blob) < SALT_SIZE THEN Len(decoded_blob) ELSE SALT_SIZE
      salt == SubSeq(decoded_blob, 1, cut)
      encrypted_data == SubSeq(decoded_blob, cut + 1, Len(decoded_blob))
      key == derive_key(password, salt)
  IN  IF Fernet_valid(key, encrypted_data)
      THEN json_loads(Fernet_decrypt(key, encrypted_data))
      ELSE None

VARIABLES
  vault_exists,     \* os.path.exists(VAULT_PATH)
  vault_file,       \* the bytes of the file at VAULT_PATH
  pc,               \* where the running process is; "shell" when none runs
  cmd,              \* args.command of the running process
  master_password,  \* MyPW.master_password
  vault_data,       \* MyPW.vault_data
  encrypted_vault,  \* the local of initialize_vault / save_vault being written
  rng,              \* number of os.urandom draws made so far
  result,           \* what the last handler reported
  last,             \* history: the last handler invoked and what it was given
  c_data,           \* codec: the contents given to encrypt_data
  c_password,       \* codec: the password given to encrypt_data
  c_n,              \* codec: os.urandom draws made before encrypt_data
  c_orig,           \* codec: the container as it was made
  c_blob,           \* codec: the container as it is given to decrypt_data
  c_muts,           \* codec: 1 once c_blob has been altered
  c_tried,          \* codec: the password given to decrypt_data
  c_result,         \* codec: what decrypt_data returned
  c_stage           \* codec: "off", "input", "blob", "decrypted"

mvars == <<vault_exists, vault_file, pc, cmd, master_password, vault_data,
           encrypted_vault, rng, result, last>>

cvars == <<c_data, c_password, c_n, c_orig, c_blob, c_muts, c_tried, c_result, c_stage>>

vars == <<mvars, cvars>>

NoEntry == [found |-> FALSE, username |-> "", password |-> ""]

NoCall == [op |-> "none", service |-> <<>>, password |-> "", confirmed |-> FALSE,
           old_exists |-> FALSE, old_file |-> <<>>, old_data |-> None,
           new_file |-> <<>>, entry |-> NoEntry]

initialize_vault_unchecked(exists, password, password_confirm) ==
  IF password # password_confirm THEN "Mismatch"
  ELSE IF password = "" THEN "EmptyPassword"
  ELSE "ok"

\* ------------------------------------------------------------ vault on disk
\* initialize_vault's checks, in order; "ok" when it goes on to write
initialize_vault(exists, password, password_confirm) ==
  IF exists THEN "AlreadyExists"
  ELSE IF password # password_confirm THEN "Mismatch"
  ELSE IF password = "" THEN "EmptyPassword"
  ELSE "ok"

load_vault(exists, file, password) ==
  IF ~exists THEN None ELSE decrypt_data(file, password)

save_vault_stale(data, password, n) == encrypt_data(empty_vault, password, n)

save_vault(data, password, n) == encrypt_data(data, password, n)

login_unchecked(exists, file, password) == IF ~exists THEN "NotFound" ELSE "ok"

\* MyPW.login: what remains of the process after it
login(exists, file, password) ==
  IF ~exists THEN "NotFound"
  ELSE IF load_vault(exists, file, password).isNone THEN "DecryptionFailed"
  ELSE "ok"

add_entry(data, service, username, password) ==
  Vault(DictSet(data.accounts, lower(service),
                [username |-> username, password |-> password]))

get_entry(data, service_name) ==
  IF lower(service_name) \in DOMAIN data.accounts
  THEN [found |-> TRUE,
        username |-> data.accounts[lower(service_name)].username,
        password |-> data.accounts[lower(service_name)].password]
  ELSE NoEntry

\* delete_entry's membership test
has_entry(data, service_name) == lower(service_name) \in DOMAIN data.accounts

delete_entry_all(data, service_name) == Vault(EmptyDict)

delete_entry(data, service_name) == Vault(DictDel(data.accounts, lower(service_name)))

\* --------------------------------------------------------------- processes
Init ==
  /\ vault_exists = FALSE
  /\ vault_file = <<>>
  /\ pc = "shell"
  /\ cmd = "none"
  /\ master_password = NoPassword
  /\ vault_data = None
  /\ encrypted_vault = <<>>
  /\ rng = 0
  /\ result = "none"
  /\ last = NoCall
  /\ c_data = empty_vault
  /\ c_password = "p"
  /\ c_n = 0
  /\ c_orig = <<>>
  /\ c_blob = <<>>
  /\ c_muts = 0
  /\ c_tried = NoPassword
  /\ c_result = None
  /\ c_stage = "off"

Call(op, service, password, confirmed, new_file, entry) ==
  [op |-> op, service |-> service, password |-> password, confirmed |-> confirmed,
   old_exists |-> vault_exists, old_file |-> vault_file, old_data |-> vault_data,
   new_file |-> new_file, entry |-> entry]

\* where a handler that has returned leaves the process
After == IF cmd = "interactive" THEN "menu" ELSE "exit"

\* the body of initialize_vault once the file is known (not) to exist
InitializeVault(op, exists, password, password_confirm, confirmed) ==
  LET out == initialize_vault(exists, password, password_confirm)
      blob == encrypt_data(empty_vault, password, rng)
  IN  IF out = "ok"
      THEN /\ rng + 2 <= MaxRand
           /\ encrypted_vault' = blob
           /\ rng' = rng + 2
           /\ pc' = "open"
           /\ result' = "pending"
           /\ last' = Call(op, <<>>, password, confirmed, blob, NoEntry)
      ELSE /\ pc' = "exit"
           /\ result' = out
           /\ last' = Call(op, <<>>, password, confirmed, <<>>, NoEntry)
           /\ UNCHANGED <<encrypted_vault, rng>>

\* pw init
CmdInit(password, password_confirm) ==
  /\ pc = "shell"
  /\ cmd' = "init"
  /\ InitializeVault("init", vault_exists, password, password_confirm, FALSE)
  /\ UNCHANGED <<vault_exists, vault_file, master_password, vault_data, cvars>>

\* pw reset
CmdReset(confirm, confirmation, password, password_confirm) ==
  /\ pc = "shell"
  /\ cmd' = "reset"
  /\ IF ~vault_exists
     THEN /\ pc' = "exit"
          /\ result' = "NoVault"
          /\ last' = Call("reset", <<>>, "", FALSE, <<>>, NoEntry)
          /\ UNCHANGED <<vault_exists, vault_file, encrypted_vault, rng>>
     ELSE IF ~confirm \/ confirmation # "RESET"
     THEN /\ pc' = "exit"
          /\ result' = "Cancelled"
          /\ last' = Call("reset", <<>>, "", FALSE, <<>>, NoEntry)
          /\ UNCHANGED <<vault_exists, vault_file, encrypted_vault, rng>>
     ELSE /\ vault_exists' = FALSE
          /\ vault_file' = <<>>
          /\ InitializeVault("reset", FALSE, password, password_confirm, TRUE)
  /\ UNCHANGED <<master_password, vault_data, cvars>>

\* open(VAULT_PATH, "wb")
Open ==
  /\ pc = "open"
  /\ vault_exists' = TRUE
  /\ vault_file' = <<>>
  /\ pc' = "write"
  /\ UNCHANGED <<cmd, master_password, vault_data, encrypted_vault, rng, result, last, cvars>>

\* f.write(encrypted_vault) and the close that ends the with block
Write ==
  /\ pc = "write"
  /\ vault_file' = encrypted_vault
  /\ pc' = After
  /\ result' = "ok"
  /\ UNCHANGED <<vault_exists, cmd, master_password, vault_data, encrypted_vault, rng, last, cvars>>

\* the process is interrupted outside a write: it is gone, the file stays
Crash ==
  /\ pc \in {"cmd", "menu", "exit"}
  /\ pc' = "shell"
  /\ cmd' = "none"
  /\ master_password' = NoPassword
  /\ vault_data' = None
  /\ encrypted_vault' = <<>>
  /\ result' = "killed"
  /\ last' = NoCall
  /\ UNCHANGED <<vault_exists, vault_file, rng, cvars>>

\* the process is interrupted before open() or between open() and f.write():
\* the file stays as that left it
CrashInSave ==
  /\ pc \in {"open", "write"}
  /\ pc' = "shell"
  /\ cmd' = "none"
  /\ master_password' = NoPassword
  /\ vault_data' = None
  /\ encrypted_vault' = <<>>
  /\ result' = "killed"
  /\ UNCHANGED <<vault_exists, vault_file, rng, last, cvars>>

\* where f.write is cut when interrupted: inside the salt, at the end of the
\* salt, inside the token
PartialCuts == {1, SALT_SIZE, SALT_SIZE + 2}

\* the process is interrupted when only n bytes of f.write have reached the file
CrashMidWrite(n) ==
  /\ pc = "write"
  /\ n \in 1..(Len(encrypted_vault) - 1)
  /\ vault_file' = SubSeq(encrypted_vault, 1, n)
  /\ pc' = "shell"
  /\ cmd' = "none"
  /\ master_password' = NoPassword
  /\ vault_data' = None
  /\ encrypted_vault' = <<>>
  /\ result' = "killed"
  /\ UNCHANGED <<vault_exists, rng, last, cvars>>

\* main returns: the process and what is known of its last handler are gone
Exit ==
  /\ pc = "exit"
  /\ pc' = "shell"
  /\ cmd' = "none"
  /\ master_password' = NoPassword
  /\ vault_data' = None
  /\ encrypted_vault' = <<>>
  /\ result' = "none"
  /\ last' = NoCall
  /\ UNCHANGED <<vault_exists, vault_file, rng, cvars>>

\* app.login() of pw add|get|list|delete and of the interactive mode
Login(c, password) ==
  /\ pc = "shell"
  /\ LET out == login(vault_exists, vault_file, password)
     IN  /\ result' = out
         /\ last' = Call("login", <<>>, password, FALSE, <<>>, NoEntry)
         /\ IF out = "ok"
            THEN /\ master_password' = password
                 /\ vault_data' = load_vault(vault_exists, vault_file, password)
                 /\ cmd' = c
                 /\ pc' = IF c = "interactive" THEN "menu" ELSE "cmd"
            ELSE /\ pc' = "shell"
                 /\ UNCHANGED <<master_password, vault_data, cmd>>
  /\ UNCHANGED <<vault_exists, vault_file, encrypted_vault, rng, cvars>>

Ready(c) == pc = "menu" \/ (pc = "cmd" /\ cmd = c)

AddEntry(service, overwrite, username, password) ==
  /\ Ready("add")
  /\ IF lower(service) \in DOMAIN vault_data.accounts /\ ~overwrite
     THEN /\ pc' = After
          /\ result' = "Cancelled"
          /\ last' = Call("add", service, "", FALSE, <<>>, NoEntry)
          /\ UNCHANGED <<vault_data, encrypted_vault, rng>>
     ELSE LET data == add_entry(vault_data, service, username, password)
              blob == save_vault(data, master_password, rng)
          IN  /\ rng + 2 <= MaxRand
              /\ vault_data' = data
              /\ encrypted_vault' = blob
              /\ rng' = rng + 2
              /\ pc' = "open"
              /\ result' = "pending"
              /\ last' = Call("add", service, "", TRUE, blob,
                               [found |-> TRUE, username |-> username, password |-> password])
  /\ UNCHANGED <<vault_exists, vault_file, cmd, master_password, cvars>>

GetEntry(service_name) ==
  /\ Ready("get")
  /\ LET entry == get_entry(vault_data, service_name)
     IN  /\ result' = IF entry.found THEN "ok" ELSE "EntryNotFound"
         /\ last' = Call("get", service_name, "", FALSE, <<>>, entry)
  /\ pc' = After
  /\ UNCHANGED <<vault_exists, vault_file, cmd, master_password, vault_data,
                 encrypted_vault, rng, cvars>>

ListEntries ==
  /\ Ready("list")
  /\ result' = "ok"
  /\ last' = Call("list", <<>>, "", FALSE, <<>>, NoEntry)
  /\ pc' = After
  /\ UNCHANGED <<vault_exists, vault_file, cmd, master_password, vault_data,
                 encrypted_vault, rng, cvars>>

DeleteEntry(service_name, confirm) ==
  /\ Ready("delete")
  /\ IF ~has_entry(vault_data, service_name)
     THEN /\ pc' = After
          /\ result' = "EntryNotFound"
          /\ last' = Call("delete", service_name, "", FALSE, <<>>, NoEntry)
          /\ UNCHANGED <<vault_data, encrypted_vault, rng>>
     ELSE IF ~confirm
     THEN /\ pc' = After
          /\ result' = "Cancelled"
          /\ last' = Call("delete", service_name, "", FALSE, <<>>, NoEntry)
          /\ UNCHANGED <<vault_data, encrypted_vault, rng>>
     ELSE LET data == delete_entry(vault_data, service_name)
              blob == save_vault(data, master_password, rng)
          IN  /\ rng + 2 <= MaxRand
              /\ vault_data' = data
              /\ encrypted_vault' = blob
              /\ rng' = rng + 2
              /\ pc' = "open"
              /\ result' = "pending"
              /\ last' = Call("delete", service_name, "", TRUE, blob, NoEntry)
  /\ UNCHANGED <<vault_exists, vault_file, cmd, master_password, cvars>>

\* the menu's quit
Quit ==
  /\ pc = "menu"
  /\ pc' = "exit"
  /\ result' = "ok"
  /\ last' = Call("quit", <<>>, "", FALSE, <<>>, NoEntry)
  /\ UNCHANGED <<vault_exists, vault_file, cmd, master_password, vault_data,
                 encrypted_vault, rng, cvars>>

\* Answers to prompts that the handler never reaches are not enumerated: reset
\* asks for a password only once confirmed, add and delete ask for
\* confirmation only when the entry exists.
Next ==
  \/ \E p, q \in Passwords \cup {""} : CmdInit(p, q)
  \/ \E b \in BOOLEAN, t \in {"RESET", "reset"} :
       ~(b /\ t = "RESET") /\ CmdReset(b, t, "", "")
  \/ \E p, q \in Passwords \cup {""} : CmdReset(TRUE, "RESET", p, q)
  \/ Open
  \/ Write
  \/ Crash
  \/ CrashInSave
  \/ \E n \in PartialCuts : CrashMidWrite(n)
  \/ Exit
  \/ \E c \in {"add", "get", "list", "delete", "interactive"}, p \in Passwords :
       Login(c, p)
  \/ \E s \in Names, u \in Usernames, p \in Secrets : AddEntry(s, TRUE, u, p)
  \/ \E s \in Names : has_entry(vault_data, s) /\ AddEntry(s, FALSE, "", "")
  \/ \E s \in Names : GetEntry(s)
  \/ ListEntries
  \/ \E s \in Names : DeleteEntry(s, TRUE)
  \/ \E s \in Names : has_entry(vault_data, s) /\ DeleteEntry(s, FALSE)
  \/ Quit

Spec == Init /\ [][Next]_vars

\* ------------------------------------------------- the codec on its own
\* every VaultContents over the normalized names
AllVaults ==
  {Vault(d) : d \in UNION {[D -> [username : Usernames, password : Secrets]] :
                             D \in SUBSET {lower(s) : s \in Names}}}

\* how many draws os.urandom has made when encrypt_data is called
CodecDraws == {0, 3}

NotJson == <<"garbage", {}>>

JunkByte == [enc |-> "b64", t |-> "junk", v |-> <<>>, x |-> 0]

CodecInit ==
  /\ vault_exists = FALSE
  /\ vault_file = <<>>
  /\ pc = "shell"
  /\ cmd = "none"
  /\ master_password = NoPassword
  /\ vault_data = None
  /\ encrypted_vault = <<>>
  /\ rng = 0
  /\ result = "none"
  /\ last = NoCall
  /\ c_data \in AllVaults
  /\ c_password \in Passwords
  /\ c_n \in CodecDraws
  /\ c_orig = <<>>
  /\ c_blob = <<>>
  /\ c_muts = 0
  /\ c_tried = NoPassword
  /\ c_result = None
  /\ c_stage = "input"

\* encrypt_data(c_data, c_password)
CodecEncrypt ==
  /\ c_stage = "input"
  /\ c_blob' = encrypt_data(c_data, c_password, c_n)
  /\ c_orig' = c_blob'
  /\ c_stage' = "blob"
  /\ UNCHANGED <<mvars, c_data, c_password, c_n, c_muts, c_tried, c_result>>

\* a container made with the right key around bytes that are not JSON
CodecForge ==
  /\ c_stage = "input"
  /\ LET salt == os_urandom(c_n, SALT_SIZE)
         key == derive_key(c_password, salt)
     IN  c_blob' = b64encode(salt \o Fernet_encrypt(key, NotJson, c_n + 1))
  /\ c_orig' = c_blob'
  /\ c_stage' = "blob"
  /\ UNCHANGED <<mvars, c_data, c_password, c_n, c_muts, c_tried, c_result>>

\* the value of byte i of the container is changed
CodecFlip(i) ==
  /\ c_stage = "blob"
  /\ c_muts = 0
  /\ i \in DOMAIN c_blob
  /\ c_blob' = [c_blob EXCEPT ![i].x = 1 - @]
  /\ c_muts' = c_muts + 1
  /\ UNCHANGED <<mvars, c_data, c_password, c_n, c_orig, c_tried, c_result, c_stage>>

\* a byte outside the base64 alphabet is put before byte i of the container
CodecJunk(i) ==
  /\ c_stage = "blob"
  /\ c_muts = 0
  /\ i \in 1..(Len(c_blob) + 1)
  /\ c_blob' = SubSeq(c_blob, 1, i - 1) \o <<JunkByte>> \o SubSeq(c_blob, i, Len(c_blob))
  /\ c_muts' = c_muts + 1
  /\ UNCHANGED <<mvars, c_data, c_password, c_n, c_orig, c_tried, c_result, c_stage>>

\* the container is cut to its first n bytes
CodecTruncate(n) ==
  /\ c_stage = "blob"
  /\ c_muts = 0
  /\ n \in 0..(Len(c_blob) - 1)
  /\ c_blob' = SubSeq(c_blob, 1, n)
  /\ c_muts' = c_muts + 1
  /\ UNCHANGED <<mvars, c_data, c_password, c_n, c_orig, c_tried, c_result, c_stage>>

\* decrypt_data(c_blob, password)
CodecDecrypt(password) ==
  /\ c_stage = "blob"
  /\ c_result' = decrypt_data(c_blob, password)
  /\ c_tried' = password
  /\ c_stage' = "decrypted"
  /\ UNCHANGED <<mvars, c_data, c_password, c_n, c_orig, c_blob, c_muts>>

CodecNext ==
  \/ CodecEncrypt
  \/ CodecForge
  \/ \E i \in 1..(SALT_SIZE + 3) : CodecFlip(i)
  \/ \E i \in 1..(SALT_SIZE + 4) : CodecJunk(i)
  \/ \E n \in 0..(SALT_SIZE + 2) : CodecTruncate(n)
  \/ \E p \in Passwords : CodecDecrypt(p)

CodecSpec == CodecInit /\ [][CodecNext]_vars

\* ------------------------------------------------------------------ claims
Returned == pc \in {"menu", "exit"}

Opens(file) == \E p \in Passwords : ~decrypt_data(file, p).isNone

\* C1: a save by add or delete that is interrupted leaves on disk either the
\* complete previous container or the complete new one.
PersistAtomic ==
  (last.op \in {"add", "delete"} /\ last.new_file # <<>> /\ result = "killed")
    => /\ vault_exists
       /\ vault_file = last.old_file \/ vault_file = last.new_file

\* C2: once an operation of a logged-in session has returned, the vault file
\* loads under the session's master password to exactly the in-memory contents.
WriteThrough ==
  (Returned /\ ~vault_data.isNone)
    => load_vault(vault_exists, vault_file, master_password) = vault_data

WriteThroughWitness ==
  /\ pc = "menu"
  /\ last.op = "delete"
  /\ result = "ok"
  /\ vault_data.accounts # EmptyDict

\* C3: once a confirmed reset of a vault holding entries has returned, a vault
\* file exists that loads under the new password to empty contents, and login
\* with a password that opened the old vault fails.
ResetPostcondition ==
  (/\ last.op = "reset"
   /\ last.confirmed
   /\ pc = "exit"
   /\ \E p \in Passwords : decrypt_data(last.old_file, p).accounts # EmptyDict)
    => /\ vault_exists
       /\ load_vault(vault_exists, vault_file, last.password) = empty_vault
       /\ \A p \in Passwords :
            ~decrypt_data(last.old_file, p).isNone
              => login(vault_exists, vault_file, p) # "ok"

\* C4: init on an existing vault file reports AlreadyExists and leaves the file
\* as it was; a successful init where none existed leaves a file that loads
\* under the given password to empty contents.
InitNeverOverwrites ==
  /\ (last.op = "init" /\ last.old_exists)
       => /\ vault_exists
          /\ vault_file = last.old_file
          /\ pc = "exit" => result = "AlreadyExists"
  /\ (last.op = "init" /\ ~last.old_exists /\ pc = "exit" /\ result = "ok")
       => load_vault(vault_exists, vault_file, last.password) = empty_vault

InitNeverOverwritesWitness ==
  /\ last.op = "init"
  /\ last.old_exists
  /\ pc = "exit"
  /\ Opens(vault_file)

\* C5: decrypt_data(encrypt_data(c, p), p) = c for every contents c and
\* password p, whatever os.urandom returned.
RoundTrip ==
  (/\ c_stage = "decrypted"
   /\ c_orig = encrypt_data(c_data, c_password, c_n)
   /\ c_muts = 0
   /\ c_tried = c_password)
    => c_result = c_data

RoundTripWitness ==
  /\ c_stage = "decrypted"
  /\ c_orig = encrypt_data(c_data, c_password, c_n)
  /\ c_muts = 0
  /\ c_tried = c_password
  /\ c_n # 0
  /\ Cardinality(DOMAIN c_data.accounts) = 2

\* C6: decrypt_data returns None, and never contents, for a malformed
\* container, a wrong password, a tampered ciphertext and a plaintext that is
\* not JSON.
OpaqueFailure ==
  (/\ c_stage = "decrypted"
   /\ \/ c_muts > 0
      \/ c_tried # c_password
      \/ c_orig # encrypt_data(c_data, c_password, c_n))
    => c_result = None

\* the salt a container carries
SaltOf(file) ==
  LET decoded_blob == b64decode(file)
  IN  IF Len(decoded_blob) < SALT_SIZE THEN <<>> ELSE SubSeq(decoded_blob, 1, SALT_SIZE)

\* C7: every container written carries a salt other than the salt of the file
\* it replaces, so re-encrypting the same contents under the same password
\* gives different file bytes.
SaltFreshness ==
  last.new_file # <<>>
    => /\ SaltOf(last.new_file) # SaltOf(last.old_file)
       /\ last.new_file # last.old_file

SaltFreshnessWitness ==
  /\ last.op = "add"
  /\ pc = "menu"
  /\ result = "ok"
  /\ last.old_data = vault_data
  /\ vault_file = last.new_file

\* two characters that are the same letter
SameLetter(c, d) == c = d \/ {c, d} = {"a", "A"}

\* two names that differ at most by letter case
SameName(s, t) == Len(s) = Len(t) /\ \A i \in DOMAIN s : SameLetter(s[i], t[i])

\* C8: every key of the contents is lowercase, no two keys differ only by
\* case, and an entry added under a name is what get returns under that name
\* in any letter case.
KeyNormalization ==
  /\ \A k \in DOMAIN vault_data.accounts :
       /\ \A i \in DOMAIN k : k[i] # "A"
       /\ \A j \in DOMAIN vault_data.accounts : SameName(j, k) => j = k
  /\ (last.op = "add" /\ last.confirmed /\ pc \in {"open", "write", "menu", "exit"})
       => \A s \in Names :
            SameName(s, last.service) => get_entry(vault_data, s) = last.entry
  /\ (last.op = "get" /\ Returned)
       => \A k \in DOMAIN vault_data.accounts :
            SameName(k, last.service)
              => /\ last.entry.found
                 /\ last.entry.username = vault_data.accounts[k].username
                 /\ last.entry.password = vault_data.accounts[k].password

KeyNormalizationWitness ==
  /\ last.op = "get"
  /\ Returned
  /\ last.entry.found
  /\ last.service = <<"A">>

\* C9: delete of a name whose normalized key is absent reports EntryNotFound
\* and changes neither the contents nor the file; a delete that goes through
\* removes exactly that key and leaves every other entry as it was.
DeleteExact ==
  (last.op = "delete" /\ Returned)
    => LET key == lower(last.service)
           old == last.old_data.accounts
           new == vault_data.accounts
       IN  IF key \notin DOMAIN old
           THEN /\ result = "EntryNotFound"
                /\ vault_data = last.old_data
                /\ vault_file = last.old_file
           ELSE IF result = "ok"
           THEN /\ DOMAIN new = (DOMAIN old) \ {key}
                /\ \A k \in DOMAIN new : new[k] = old[k]
           ELSE /\ vault_data = last.old_data
                /\ vault_file = last.old_file

DeleteExactWitness ==
  /\ last.op = "delete"
  /\ Returned
  /\ result = "ok"
  /\ vault_data.accounts # EmptyDict

\* C10: login reports NotFound when there is no vault file and
\* DecryptionFailed when the password is not the vault's, and then the process
\* ends with the file untouched; add, get, list and delete run only on
\* contents that login obtained.
LoginGates ==
  /\ (last.op = "login" /\ result # "killed")
       => /\ ~last.old_exists => result = "NotFound"
          /\ (\E p \in Passwords :
                p # last.password /\ ~decrypt_data(last.old_file, p).isNone)
               => result = "DecryptionFailed"
          /\ result \in {"NotFound", "DecryptionFailed"}
               => /\ pc = "shell"
                  /\ vault_data.isNone
                  /\ vault_exists = last.old_exists
                  /\ vault_file = last.old_file
  /\ pc \in {"cmd", "menu"} => ~vault_data.isNone
  /\ last.op \in {"add", "get", "list", "delete"} => ~last.old_data.isNone

LoginGatesWitness ==
  /\ last.op = "login"
  /\ result = "DecryptionFailed"
  /\ Opens(vault_file)
====
